---- MODULE Spec2Model ----
(***************************************************************************)
(* Model of cc0::array<type_t> (the variable-size array of arr.h): its     *)
(* three fields, the heap buffers it owns, and every operation that        *)
(* creates, resizes, copies, moves or destroys its storage.                *)
(*                                                                         *)
(* A pointer is the identity of the buffer a `new type_t[n]` produced      *)
(* (NULL is 0).  Every `new` yields a buffer distinct from all earlier     *)
(* ones; a deleted buffer stays "freed" for the rest of the run.           *)
(* The element type is one whose default constructor yields DefaultVal, so *)
(* the elements of a new buffer are determinate.                           *)
(***************************************************************************)
EXTENDS Integers, Sequences, FiniteSets

\* ------------------------------------------------------------------ bounds
MaxLen    == 3      \* largest size ever passed to create / a constructor
MaxAllocs == 3      \* number of `new type_t[n]` calls in one run
MaxVal    == 1      \* element values are 0..MaxVal
MaxRun    == 3      \* longest tracked run of pooled create calls
MaxOps    == 5      \* number of operations the program performs
RawLen    == 2      \* length of the program's plain buffer `type_t src[RawLen]`

Arr  == {1, 2}              \* the array objects of the program
Buf  == 1..MaxAllocs        \* buffer identities
Val  == 0..MaxVal           \* element values
Sl   == {1, 2}              \* the slice objects of the program
NULL == 0                   \* nullptr
RAW  == -1                  \* the storage of the plain buffer `src`
DefaultVal == 0             \* type_t()

VARIABLES
  alive,       \* alive[a]: object a is constructed and not yet destructed
  m_values,    \* m_values[a]: NULL or the buffer a points to
  m_size,      \* m_size[a]
  m_capacity,  \* m_capacity[a]
  heap,        \* heap[p]: state ("none","live","freed") and elements of buffer p
  last,        \* the operation that produced this state, with what it did
  run,         \* run[a]: the pooled create calls applied to a since it was empty
  raw,         \* the elements of the plain buffer `src`
  sl,          \* sl[k]: slice k, its pointer (storage b, offset o) and size n
  nops         \* the number of operations performed so far

vars == <<alive, m_values, m_size, m_capacity, heap, last, run, raw, sl, nops>>

\* ------------------------------------------------------------ the machine
\* The fields and the heap as one value, threaded through the functions of
\* the class, plus what the call did: buffers allocated (al), buffers passed
\* non-null to delete[] (fr), a delete[] of a buffer that is not live (bad),
\* a read outside the source's storage (oob), the number of source elements
\* read (rd), the cells written through a slice, in order (wr).
Machine ==
  [v |-> m_values, s |-> m_size, c |-> m_capacity, h |-> heap,
   raw |-> raw, sl |-> sl,
   al |-> <<>>, fr |-> <<>>, bad |-> FALSE, oob |-> FALSE,
   rd |-> 0, wr |-> <<>>]

\* a pointer: the storage it points into and the element offset in it
Ptr(b, o) == [b |-> b, o |-> o]

\* the elements of storage b that can be accessed: those of a live heap
\* buffer or of the plain buffer
Storage(m, b) ==
  IF b = RAW THEN m.raw
  ELSE IF b = NULL THEN <<>>
  ELSE IF m.h[b].state = "live" THEN m.h[b].elems
  ELSE <<>>

\* the buffer the next `new` returns
NewId(h) == CHOOSE p \in Buf : h[p].state = "none" /\ \A q \in Buf : q < p => h[q].state # "none"

HasRoom(h) == \E p \in Buf : h[p].state = "none"

\* delete [] p
delete_arr(m, p) ==
  IF p = NULL THEN m
  ELSE [m EXCEPT !.h[p] = [state |-> "freed", elems |-> <<>>],
                 !.fr = Append(@, p),
                 !.bad = @ \/ m.h[p].state # "live"]

\* m_values = new type_t[size], the elements holding `fresh`
new_arr(m, a, fresh) ==
  LET p == NewId(m.h)
  IN  [m EXCEPT !.h[p] = [state |-> "live", elems |-> fresh],
                !.v[a] = p,
                !.al = Append(@, p)]

\* destroy without `m_capacity = 0`
destroy_keeps_capacity(m, a, use_pool) ==
  LET m1 == IF ~use_pool
            THEN [delete_arr(m, m.v[a]) EXCEPT !.v[a] = NULL]
            ELSE m
  IN  [m1 EXCEPT !.s[a] = 0]

\* destroy that releases the buffer whatever use_pool is
destroy_ignores_pool(m, a, use_pool) ==
  [delete_arr(m, m.v[a]) EXCEPT !.v[a] = NULL, !.c[a] = 0, !.s[a] = 0]

\* destroy without `m_values = nullptr`
destroy_keeps_pointer(m, a, use_pool) ==
  LET m1 == IF ~use_pool
            THEN [delete_arr(m, m.v[a]) EXCEPT !.c[a] = 0]
            ELSE m
  IN  [m1 EXCEPT !.s[a] = 0]

\* array::destroy(use_pool)
destroy(m, a, use_pool) ==
  LET m1 == IF ~use_pool
            THEN [delete_arr(m, m.v[a]) EXCEPT !.v[a] = NULL, !.c[a] = 0]
            ELSE m
  IN  [m1 EXCEPT !.s[a] = 0]

\* the condition of create without the use_pool test: any other size reallocates
NeedsRealloc_any_change(size, capacity, use_pool) ==
  size < capacity \/ size > capacity

\* the condition of create without the shrinking disjunct
NeedsRealloc_grow_only(size, capacity, use_pool) ==
  size > capacity

\* the condition of array::create
NeedsRealloc(size, capacity, use_pool) ==
  (size < capacity /\ ~use_pool) \/ size > capacity

\* create without the destroy(false) that precedes the allocation
create_no_release(m, a, size, use_pool, fresh) ==
  IF NeedsRealloc(size, m.c[a], use_pool)
  THEN IF size > 0
       THEN [new_arr(m, a, fresh) EXCEPT !.s[a] = size, !.c[a] = size]
       ELSE m
  ELSE m

\* array::create(size, use_pool)
create(m, a, size, use_pool, fresh) ==
  IF NeedsRealloc(size, m.c[a], use_pool)
  THEN LET m1 == destroy(m, a, FALSE)
       IN  IF size > 0
           THEN [new_arr(m1, a, fresh) EXCEPT !.s[a] = size, !.c[a] = size]
           ELSE m1
  ELSE m

\* values[i] for a source pointer `values`: the element when it lies inside
\* the storage pointed into, otherwise whatever the out-of-bounds read
\* produces (junk)
ReadAt(m, values, i, junk) ==
  IF values.o + i < Len(Storage(m, values.b))
  THEN [val |-> Storage(m, values.b)[values.o + i + 1], oob |-> FALSE]
  ELSE [val |-> junk[i + 1], oob |-> TRUE]

\* the loop of array::copy, from index i on
RECURSIVE copy_loop(_, _, _, _, _)
copy_loop(m, a, values, i, junk) ==
  IF i < m.s[a]
  THEN LET rd == ReadAt(m, values, i, junk)
       IN  copy_loop([m EXCEPT !.h[m.v[a]].elems[i + 1] = rd.val,
                               !.oob = @ \/ rd.oob,
                               !.rd = @ + 1],
                     a, values, i + 1, junk)
  ELSE m

\* copy that resets the array with destroy(use_pool) before it calls create
copy_resets_first(m, a, values, size, use_pool, fresh, junk) ==
  copy_loop(create(destroy(m, a, use_pool), a, size, use_pool, fresh), a, values, 0, junk)

\* copy that takes over the source's heap buffer instead of copying from it
copy_adopts(m, a, values, size, use_pool, fresh, junk) ==
  IF values.b \in Buf /\ values.o = 0
  THEN [m EXCEPT !.v[a] = values.b, !.s[a] = size, !.c[a] = Len(Storage(m, values.b))]
  ELSE copy_loop(create(m, a, size, use_pool, fresh), a, values, 0, junk)

\* array::copy(values, size, use_pool)
copy(m, a, values, size, use_pool, fresh, junk) ==
  copy_loop(create(m, a, size, use_pool, fresh), a, values, 0, junk)

\* array::array(): the empty state
default_ctor(m, a) == [m EXCEPT !.v[a] = NULL, !.s[a] = 0, !.c[a] = 0]

\* array::array(array &&arr)
move_ctor(m, a, b) ==
  LET m1 == [m EXCEPT !.v[a] = m.v[b], !.s[a] = m.s[b], !.c[a] = m.c[b]]
  IN  [m1 EXCEPT !.v[b] = NULL, !.s[b] = 0, !.c[b] = 0]

\* a destructor that does not release the buffer
dtor_no_release(m, a) == m

\* array::~array()
dtor(m, a) == delete_arr(m, m.v[a])

\* (*this)[i] = v through operator type_t*()
store(m, a, i, v) == [m EXCEPT !.h[m.v[a]].elems[i + 1] = v]

\* move assignment without the destroy(false) of the storage held
move_assign_no_release(m, a, b) ==
  LET m2 == [m EXCEPT !.v[a] = m.v[b], !.s[a] = m.s[b], !.c[a] = m.c[b]]
  IN  [m2 EXCEPT !.v[b] = NULL, !.s[b] = 0, !.c[b] = 0]

\* array::operator=(array &&arr)
move_assign(m, a, b) ==
  LET m1 == IF m.v[a] # m.v[b] THEN destroy(m, a, FALSE) ELSE m
      m2 == [m1 EXCEPT !.v[a] = m1.v[b], !.s[a] = m1.s[b], !.c[a] = m1.c[b]]
  IN  [m2 EXCEPT !.v[b] = NULL, !.s[b] = 0, !.c[b] = 0]

\* create when `new type_t[size]` throws, leaving the fields untouched and
\* the buffer held unreleased
create_throw_no_release(m, a, size, use_pool) == m

\* array::create(size, use_pool) when `new type_t[size]` throws: the call
\* ends after destroy(false), before any assignment
create_throw(m, a, size, use_pool) ==
  IF NeedsRealloc(size, m.c[a], use_pool) /\ size > 0
  THEN destroy(m, a, FALSE)
  ELSE m

\* slice::slice(values, size), stored in slice object k
slice_ctor(m, k, values, size) ==
  [m EXCEPT !.sl[k] = [b |-> values.b, o |-> values.o, n |-> size]]

\* array::operator slice<type_t>()
array_slice(m, k, a) == slice_ctor(m, k, Ptr(m.v[a], 0), m.s[a])

\* array::operator()(start, end)
array_range(m, k, a, start, end) ==
  slice_ctor(m, k, Ptr(m.v[a], 0 + start), end - start)

\* slice::operator()(start, end) with `m_values` in place of `m_values + start`
slice_range_drops_start(m, k, j, start, end) ==
  slice_ctor(m, k, Ptr(m.sl[j].b, m.sl[j].o), end - start)

\* slice::operator()(start, end) of slice j
slice_range(m, k, j, start, end) ==
  slice_ctor(m, k, Ptr(m.sl[j].b, m.sl[j].o + start), end - start)

\* values[i] = v for a pointer `values`
store_at(m, values, i, v) ==
  IF values.b = RAW
  THEN [m EXCEPT !.raw[values.o + i + 1] = v,
                 !.wr = Append(@, <<values.b, values.o + i>>)]
  ELSE [m EXCEPT !.h[values.b].elems[values.o + i + 1] = v,
                 !.wr = Append(@, <<values.b, values.o + i>>)]

\* the loop of fill, from index i on
RECURSIVE fill_loop(_, _, _, _)
fill_loop(m, k, value, i) ==
  IF i < m.sl[k].n
  THEN fill_loop(store_at(m, Ptr(m.sl[k].b, m.sl[k].o), i, value), k, value, i + 1)
  ELSE m

\* fill whose loop stops one element early
fill_stops_early(m, k, value) ==
  IF m.sl[k].n > 0
  THEN [fill_loop([m EXCEPT !.sl[k].n = @ - 1], k, value, 0)
          EXCEPT !.sl[k].n = m.sl[k].n]
  ELSE m

\* fill(slice, value)
fill(m, k, value) == fill_loop(m, k, value, 0)

\* ------------------------------------------------------------ observation
Fields(m, a) == [v |-> m.v[a], s |-> m.s[a], c |-> m.c[a]]

\* the elements of the buffer p points to (none for a null pointer)
Elems(h, p) == IF p = NULL THEN <<>> ELSE h[p].elems

IsEmpty(f) == f.v = NULL /\ f.s = 0 /\ f.c = 0

FreshRun  == [reqs |-> <<>>, allocs |-> 0]
BrokenRun == [reqs |-> <<0>>, allocs |-> 0]

\* run[x] after operation op on target a that left machine m and liveness al
RunAfter(x, op, a, n, pool, m, al) ==
  IF op = "create" /\ x = a /\ pool /\ n > 0
     /\ run[x] # BrokenRun /\ Len(run[x].reqs) < MaxRun
  THEN [reqs |-> Append(run[x].reqs, n), allocs |-> run[x].allocs + Len(m.al)]
  ELSE IF ~al[x] THEN BrokenRun
  ELSE IF IsEmpty(Fields(m, x)) THEN FreshRun
  ELSE IF x = a THEN BrokenRun
  ELSE run[x]

\* the state after operation op(a, b, n, pool) took Machine to m
Commit(op, a, b, n, pool, m, al) ==
  /\ nops < MaxOps
  /\ nops' = nops + 1
  /\ alive' = al
  /\ m_values' = m.v
  /\ m_size' = m.s
  /\ m_capacity' = m.c
  /\ heap' = m.h
  /\ last' = [op |-> op, a |-> a, b |-> b, n |-> n, pool |-> pool,
              pre |-> Fields(Machine, a), preb |-> Fields(Machine, b),
              al |-> m.al, fr |-> m.fr, bad |-> m.bad, oob |-> m.oob,
              rd |-> m.rd, wr |-> m.wr]
  /\ raw' = m.raw
  /\ sl' = m.sl
  /\ run' = [x \in Arr |-> RunAfter(x, op, a, n, pool, m, al)]

\* the state after operation op on slice k (made from slice j or array a,
\* with the indices lo, hi and the value v) took Machine to m; no array
\* member function ran, so the fields and the runs stay
CommitView(op, k, j, a, lo, hi, v, m) ==
  /\ nops < MaxOps
  /\ nops' = nops + 1
  /\ alive' = alive
  /\ m_values' = m.v
  /\ m_size' = m.s
  /\ m_capacity' = m.c
  /\ heap' = m.h
  /\ last' = [op |-> op, k |-> k, j |-> j, a |-> a, lo |-> lo, hi |-> hi,
              val |-> v,
              al |-> m.al, fr |-> m.fr, bad |-> m.bad, oob |-> m.oob,
              rd |-> m.rd, wr |-> m.wr]
  /\ raw' = m.raw
  /\ sl' = m.sl
  /\ run' = run

\* ---------------------------------------------------------------- actions
Init ==
  /\ alive = [a \in Arr |-> TRUE]
  /\ m_values = [a \in Arr |-> NULL]
  /\ m_size = [a \in Arr |-> 0]
  /\ m_capacity = [a \in Arr |-> 0]
  /\ heap = [p \in Buf |-> [state |-> "none", elems |-> <<>>]]
  /\ last = [op |-> "init", a |-> 1, b |-> 1, n |-> 0, pool |-> FALSE,
             pre |-> [v |-> NULL, s |-> 0, c |-> 0],
             preb |-> [v |-> NULL, s |-> 0, c |-> 0],
             al |-> <<>>, fr |-> <<>>, bad |-> FALSE, oob |-> FALSE,
             rd |-> 0, wr |-> <<>>]
  /\ raw = [i \in 1..RawLen |-> DefaultVal]
  /\ sl = [k \in Sl |-> [b |-> NULL, o |-> 0, n |-> 0]]
  /\ run = [a \in Arr |-> FreshRun]
  /\ nops = 0

\* the elements of a buffer `new type_t[n]` has just produced: type_t is
\* instantiated with a type whose default constructor yields DefaultVal
Fresh(n) == [k \in 1..n |-> DefaultVal]

\* the indices (from 1) a copy loop can reach that lie outside the storage
\* behind the source pointer p
Beyond(p) == (Len(Storage(Machine, p.b)) - p.o + 1)..MaxLen

\* the fields of an object whose lifetime has ended are not program state;
\* they are kept at NULL, 0, 0
Gone(m, a) == [m EXCEPT !.v[a] = NULL, !.s[a] = 0, !.c[a] = 0]

\* a.create(n, pool)
Create(a, n, pool) ==
  /\ alive[a]
  /\ (n > 0 /\ NeedsRealloc(n, m_capacity[a], pool)) => HasRoom(heap)
  /\ Commit("create", a, a, n, pool, create(Machine, a, n, pool, Fresh(n)), alive)

\* a.destroy(pool)
Destroy(a, pool) ==
  /\ alive[a]
  /\ Commit("destroy", a, a, 0, pool, destroy(Machine, a, pool), alive)

\* a = b  (copy assignment; b may be a itself)
CopyAssign(a, b) ==
  /\ alive[a] /\ alive[b]
  /\ (m_size[b] > 0 /\ NeedsRealloc(m_size[b], m_capacity[a], TRUE)) => HasRoom(heap)
  /\ \E junk \in [Beyond(Ptr(m_values[b], 0)) -> Val] :
       Commit("copy_assign", a, b, m_size[b], TRUE,
              copy(Machine, a, Ptr(m_values[b], 0), m_size[b], TRUE, Fresh(m_size[b]), junk), alive)

\* a = std::move(b)  (b may be a itself)
MoveAssign(a, b) ==
  /\ alive[a] /\ alive[b]
  /\ Commit("move_assign", a, b, 0, FALSE, move_assign(Machine, a, b), alive)

\* array a;
DefaultCtor(a) ==
  /\ ~alive[a]
  /\ Commit("default_ctor", a, a, 0, FALSE, default_ctor(Machine, a),
            [alive EXCEPT ![a] = TRUE])

\* array a(n);
SizedCtor(a, n) ==
  /\ ~alive[a]
  /\ n > 0 => HasRoom(heap)
  /\ Commit("sized_ctor", a, a, n, FALSE,
            create(default_ctor(Machine, a), a, n, FALSE, Fresh(n)),
            [alive EXCEPT ![a] = TRUE])

\* array a(b);
CopyCtor(a, b) ==
  /\ ~alive[a] /\ alive[b] /\ a # b
  /\ m_size[b] > 0 => HasRoom(heap)
  /\ \E junk \in [Beyond(Ptr(m_values[b], 0)) -> Val] :
       Commit("copy_ctor", a, b, m_size[b], TRUE,
              copy(default_ctor(Machine, a), a, Ptr(m_values[b], 0), m_size[b], TRUE, Fresh(m_size[b]), junk),
              [alive EXCEPT ![a] = TRUE])

\* array a(std::move(b));
MoveCtor(a, b) ==
  /\ ~alive[a] /\ alive[b] /\ a # b
  /\ Commit("move_ctor", a, b, 0, FALSE, move_ctor(Machine, a, b),
            [alive EXCEPT ![a] = TRUE])

\* the destructor of a
Dtor(a) ==
  /\ alive[a]
  /\ Commit("dtor", a, a, 0, FALSE, Gone(dtor(Machine, a), a),
            [alive EXCEPT ![a] = FALSE])

\* a[i] = v through the pointer a decays to
Write(a, i, v) ==
  /\ alive[a]
  /\ i < m_size[a]
  /\ Commit("write", a, a, i, FALSE, store(Machine, a, i, v), alive)

\* a.create(n, pool) whose allocation fails: std::bad_alloc leaves create
CreateFail(a, n, pool) ==
  /\ alive[a]
  /\ n > 0 /\ NeedsRealloc(n, m_capacity[a], pool)
  /\ Commit("create_fail", a, a, n, pool, create_throw(Machine, a, n, pool), alive)

\* array a(src, n);  for the plain buffer src
RawCtor(a, n) ==
  /\ ~alive[a]
  /\ n > 0 => HasRoom(heap)
  /\ \E junk \in [Beyond(Ptr(RAW, 0)) -> Val] :
       Commit("raw_ctor", a, a, n, TRUE,
              copy(default_ctor(Machine, a), a, Ptr(RAW, 0), n, TRUE, Fresh(n), junk),
              [alive EXCEPT ![a] = TRUE])

\* a = src;  for the plain buffer src
RawAssign(a) ==
  /\ alive[a]
  /\ NeedsRealloc(RawLen, m_capacity[a], TRUE) => HasRoom(heap)
  /\ \E junk \in [Beyond(Ptr(RAW, 0)) -> Val] :
       Commit("raw_assign", a, a, RawLen, TRUE,
              copy(Machine, a, Ptr(RAW, 0), RawLen, TRUE, Fresh(RawLen), junk), alive)

\* src[i] = v
WriteRaw(i, v) ==
  CommitView("write_raw", 0, 0, 0, i, i, v, store_at(Machine, Ptr(RAW, 0), i, v))

\* the slice s covers storage that can be accessed
Valid(s) == s.n = 0 \/ s.o + s.n <= Len(Storage(Machine, s.b))

\* slice k = a;
ToSlice(k, a) ==
  /\ alive[a]
  /\ CommitView("array_slice", k, 0, a, 0, m_size[a], DefaultVal,
                array_slice(Machine, k, a))

\* slice k = a(lo, hi);
ViewOf(k, a, lo, hi) ==
  /\ alive[a]
  /\ lo <= hi /\ hi <= m_size[a]
  /\ CommitView("array_range", k, 0, a, lo, hi, DefaultVal,
                array_range(Machine, k, a, lo, hi))

\* slice k = j(lo, hi);  for another slice j
Narrow(k, j, lo, hi) ==
  /\ k # j
  /\ Valid(sl[j])
  /\ lo <= hi /\ hi <= sl[j].n
  /\ CommitView("slice_range", k, j, 0, lo, hi, DefaultVal,
                slice_range(Machine, k, j, lo, hi))

\* k[i] = v through the pointer slice k decays to
SliceWrite(k, i, v) ==
  /\ Valid(sl[k])
  /\ i < sl[k].n
  /\ CommitView("slice_write", k, 0, 0, i, i, v,
                store_at(Machine, Ptr(sl[k].b, sl[k].o), i, v))

\* fill(k, v)
Fill(k, v) ==
  /\ Valid(sl[k])
  /\ CommitView("fill", k, 0, 0, 0, sl[k].n, v, fill(Machine, k, v))

Next ==
  \/ \E a \in Arr, n \in 0..MaxLen, pool \in BOOLEAN : Create(a, n, pool)
  \/ \E a \in Arr, pool \in BOOLEAN : Destroy(a, pool)
  \/ \E a \in Arr, b \in Arr : CopyAssign(a, b)
  \/ \E a \in Arr, b \in Arr : MoveAssign(a, b)
  \/ \E a \in Arr : DefaultCtor(a)
  \/ \E a \in Arr, n \in 0..MaxLen : SizedCtor(a, n)
  \/ \E a \in Arr, b \in Arr : CopyCtor(a, b)
  \/ \E a \in Arr, b \in Arr : MoveCtor(a, b)
  \/ \E a \in Arr : Dtor(a)
  \/ \E a \in Arr, i \in 0..(MaxLen - 1), v \in Val : Write(a, i, v)

Spec == Init /\ [][Next]_vars

\* programs that copy between arrays and the plain buffer src
NextRaw ==
  \/ \E a \in Arr, n \in 0..MaxLen, pool \in BOOLEAN : Create(a, n, pool)
  \/ \E a \in Arr, pool \in BOOLEAN : Destroy(a, pool)
  \/ \E a \in Arr, b \in Arr : CopyAssign(a, b)
  \/ \E a \in Arr, b \in Arr : CopyCtor(a, b)
  \/ \E a \in Arr : Dtor(a)
  \/ \E a \in Arr, i \in 0..(MaxLen - 1), v \in Val : Write(a, i, v)
  \/ \E a \in Arr, n \in 0..RawLen : RawCtor(a, n)
  \/ \E a \in Arr : RawAssign(a)
  \/ \E i \in 0..(RawLen - 1), v \in Val : WriteRaw(i, v)

SpecRaw == Init /\ [][NextRaw]_vars

\* programs that take slices of the array 1, which they create, destroy and
\* move to and from the array 2
NextView ==
  \/ \E n \in 0..MaxLen, pool \in BOOLEAN : Create(1, n, pool)
  \/ \E a \in Arr, b \in Arr : MoveAssign(a, b)
  \/ DefaultCtor(1)
  \/ Dtor(1)
  \/ \E k \in Sl, a \in Arr : ToSlice(k, a)
  \/ \E k \in Sl, a \in Arr, lo \in 0..MaxLen, hi \in 0..MaxLen : ViewOf(k, a, lo, hi)
  \/ \E k \in Sl, j \in Sl, lo \in 0..MaxLen, hi \in 0..MaxLen : Narrow(k, j, lo, hi)
  \/ \E k \in Sl, i \in 0..(MaxLen - 1), v \in Val : SliceWrite(k, i, v)
  \/ \E k \in Sl, v \in Val : Fill(k, v)

SpecView == Init /\ [][NextView]_vars

\* programs in which an allocation of create can fail
NextOOM ==
  \/ \E a \in Arr, n \in 0..MaxLen, pool \in BOOLEAN : Create(a, n, pool)
  \/ \E a \in Arr, n \in 0..MaxLen, pool \in BOOLEAN : CreateFail(a, n, pool)
  \/ \E a \in Arr, pool \in BOOLEAN : Destroy(a, pool)
  \/ \E a \in Arr, b \in Arr : CopyAssign(a, b)
  \/ \E a \in Arr : DefaultCtor(a)
  \/ \E a \in Arr, n \in 0..MaxLen : SizedCtor(a, n)
  \/ \E a \in Arr : Dtor(a)
  \/ \E a \in Arr, i \in 0..(MaxLen - 1), v \in Val : Write(a, i, v)

SpecOOM == Init /\ [][NextOOM]_vars

TypeOK ==
  /\ alive \in [Arr -> BOOLEAN]
  /\ m_values \in [Arr -> Buf \cup {NULL}]
  /\ m_size \in [Arr -> 0..MaxLen]
  /\ m_capacity \in [Arr -> 0..MaxLen]
  /\ \A p \in Buf : heap[p].state \in {"none", "live", "freed"}
  /\ nops \in 0..MaxOps
  /\ raw \in [1..RawLen -> Val]
  /\ \A k \in Sl : sl[k].b \in Buf \cup {NULL} /\ sl[k].o \in 0..MaxLen /\ sl[k].n \in 0..MaxLen

\* ----------------------------------------------------------------- claims
Now(a) == Fields(Machine, a)

\* the buffer p is live and holds exactly n elements
LiveOf(p, n) == p # NULL /\ heap[p].state = "live" /\ Len(heap[p].elems) = n

\* what delete[] releases for a pointer p: nothing for nullptr
Released(p) == IF p = NULL THEN <<>> ELSE <<p>>

\* C1: every live array has size <= capacity; with capacity > 0 its values
\* pointer is a live buffer of exactly capacity elements; with capacity = 0
\* the pointer is null and the size is 0.
C1_StructuralInvariant ==
  \A a \in Arr : alive[a] =>
    /\ m_size[a] <= m_capacity[a]
    /\ m_capacity[a] > 0 => LiveOf(m_values[a], m_capacity[a])
    /\ m_capacity[a] = 0 => (m_values[a] = NULL /\ m_size[a] = 0)

\* a pooled array (size below capacity) has been moved over an array that
\* held storage of its own
C1_Witness ==
  /\ last.op = "move_assign" /\ last.a # last.b
  /\ last.pre.c > 0 /\ last.preb.c > 0 /\ last.preb.s < last.preb.c
  /\ m_capacity[last.a] > 0

\* C2: create(n, true) with 0 < n <= capacity reuses the buffer and leaves
\* size = n, capacity and values pointer as they were.
C2_PoolReuseSetsSize ==
  (last.op = "create" /\ last.pool /\ 0 < last.n /\ last.n <= last.pre.c) =>
    /\ m_size[last.a] = last.n
    /\ m_capacity[last.a] = last.pre.c
    /\ m_values[last.a] = last.pre.v

\* C3: after the copy assignment d = c, d has the size of c and element i of
\* d is element i of c for every i below that size (type2_t is type_t here,
\* the conversion is the copy of the value).
C3_CopyAssignCopies ==
  (last.op = "copy_assign") =>
    /\ m_size[last.a] = m_size[last.b]
    /\ \A i \in 1..m_size[last.b] :
         Elems(heap, m_values[last.a])[i] = Elems(heap, m_values[last.b])[i]

\* C4: a = std::move(a) changes neither the fields of a nor the elements of
\* any buffer.
C4_SelfMoveUnchanged ==
  [][(last'.op = "move_assign" /\ last'.a = last'.b) =>
       /\ m_values' = m_values
       /\ m_size' = m_size
       /\ m_capacity' = m_capacity
       /\ heap' = heap]_vars

\* the largest request of a run (0 for none)
RunMax(reqs) ==
  IF reqs = <<>> THEN 0
  ELSE CHOOSE k \in 1..MaxLen :
         /\ \E i \in 1..Len(reqs) : reqs[i] = k
         /\ \A i \in 1..Len(reqs) : reqs[i] <= k

\* the requests of a run that exceed every earlier one
RunRecords(reqs) ==
  {i \in 1..Len(reqs) : \A j \in 1..(i - 1) : reqs[j] < reqs[i]}

\* C5: in a run of create(n, true) calls, n > 0, on an array that started
\* empty, a call allocates exactly when n exceeds the capacity held then, and
\* allocates n elements; capacity never decreases and equals the largest
\* request; create(MaxLen), create(1), create(2) allocates once.
C5_PoolRetention ==
  /\ \A a \in Arr : run[a] # BrokenRun =>
       /\ alive[a]
       /\ m_capacity[a] = RunMax(run[a].reqs)
       /\ run[a].allocs = Cardinality(RunRecords(run[a].reqs))
  /\ (last.op = "create" /\ last.pool /\ last.n > 0 /\ run[last.a] # BrokenRun) =>
       /\ Len(last.al) = (IF last.n > last.pre.c THEN 1 ELSE 0)
       /\ \A k \in 1..Len(last.al) : LiveOf(last.al[k], last.n)
       /\ m_capacity[last.a] >= last.pre.c
  /\ \A a \in Arr : run[a].reqs = <<MaxLen, 1, 2>> =>
       (run[a].allocs = 1 /\ m_capacity[a] = MaxLen)

C5_Witness ==
  \E a \in Arr : run[a].reqs = <<MaxLen, 1, 2>> /\ last.op = "create" /\ last.a = a

\* C6: create(0, true) sets size to 0 and leaves values and capacity alone;
\* create(0, false) releases the buffer and leaves the empty state.
C6_CreateZero ==
  (last.op = "create" /\ last.n = 0) =>
    IF last.pool
    THEN /\ m_size[last.a] = 0
         /\ m_values[last.a] = last.pre.v
         /\ m_capacity[last.a] = last.pre.c
    ELSE /\ IsEmpty(Now(last.a))
         /\ last.fr = Released(last.pre.v)
         /\ last.pre.v # NULL => heap[last.pre.v].state = "freed"

\* C7: create(n, pool) with n above the capacity releases the buffer held
\* (if any), allocates one buffer of exactly n elements and leaves
\* size = capacity = n, whatever pool is.
C7_GrowReallocates ==
  (last.op = "create" /\ last.n > last.pre.c) =>
    /\ last.fr = Released(last.pre.v)
    /\ last.pre.v # NULL => heap[last.pre.v].state = "freed"
    /\ Len(last.al) = 1
    /\ m_values[last.a] = last.al[1]
    /\ LiveOf(m_values[last.a], last.n)
    /\ m_size[last.a] = last.n
    /\ m_capacity[last.a] = last.n

C7_Witness ==
  /\ last.op = "create" /\ last.n > last.pre.c /\ last.pre.c > 0
  /\ m_capacity[last.a] = last.n

\* C8: create(n, false) with 0 < n < capacity releases the buffer held and
\* allocates one of exactly n elements; afterwards size = capacity = n.
C8_ShrinkReallocates ==
  (last.op = "create" /\ ~last.pool /\ 0 < last.n /\ last.n < last.pre.c) =>
    /\ last.fr = <<last.pre.v>>
    /\ heap[last.pre.v].state = "freed"
    /\ Len(last.al) = 1
    /\ m_values[last.a] = last.al[1]
    /\ LiveOf(m_values[last.a], last.n)
    /\ m_size[last.a] = last.n
    /\ m_capacity[last.a] = last.n

C8_Witness ==
  /\ last.op = "create" /\ ~last.pool /\ 0 < last.n /\ last.n < last.pre.c
  /\ m_capacity[last.a] = last.n

\* C9: destroy(true) sets size to 0, keeps values and capacity and releases
\* nothing; a create(m, true) with m within the capacity kept allocates
\* nothing and releases nothing.
C9_DestroyPoolKeepsBuffer ==
  /\ (last.op = "destroy" /\ last.pool) =>
       /\ m_size[last.a] = 0
       /\ m_values[last.a] = last.pre.v
       /\ m_capacity[last.a] = last.pre.c
       /\ last.fr = <<>> /\ last.al = <<>>
       /\ last.pre.c > 0 => LiveOf(last.pre.v, last.pre.c)
  /\ (last.op = "create" /\ last.pool /\ last.n <= last.pre.c) =>
       /\ last.al = <<>> /\ last.fr = <<>>
       /\ m_values[last.a] = last.pre.v
       /\ m_capacity[last.a] = last.pre.c
       /\ last.pre.c > 0 => LiveOf(last.pre.v, last.pre.c)

\* a pooled create on an array that destroy(true) left with size 0 and its
\* buffer
C9_Witness ==
  /\ last.op = "create" /\ last.pool /\ 0 < last.n /\ last.n <= last.pre.c
  /\ last.pre.s = 0
  /\ m_capacity[last.a] = last.pre.c

\* C10: destroy(false) releases the buffer held (if any) and leaves the empty
\* state; on an array that is already empty it releases nothing.
C10_DestroyReleases ==
  (last.op = "destroy" /\ ~last.pool) =>
    /\ IsEmpty(Now(last.a))
    /\ last.fr = Released(last.pre.v)
    /\ last.pre.v # NULL => heap[last.pre.v].state = "freed"
    /\ ~last.bad
    /\ IsEmpty(last.pre) => (last.fr = <<>> /\ last.al = <<>>)

\* destroy(false) on an array an earlier destroy(false) has emptied
C10_Witness ==
  /\ last.op = "destroy" /\ ~last.pool /\ IsEmpty(last.pre)
  /\ \E p \in Buf : heap[p].state = "freed"
  /\ IsEmpty(Now(last.a))

\* C11: after d = std::move(c) or the move construction of d from c, c and d
\* distinct, c is empty, d has the pointer, size and capacity c had, nothing
\* is allocated, and a move assignment has released the buffer d held.
C11_MoveTransfers ==
  (last.op \in {"move_assign", "move_ctor"} /\ last.a # last.b) =>
    /\ IsEmpty(Now(last.b))
    /\ Now(last.a) = last.preb
    /\ last.al = <<>>
    /\ last.preb.v # NULL => LiveOf(last.preb.v, last.preb.c)
    /\ last.op = "move_assign" =>
         /\ last.fr = Released(last.pre.v)
         /\ last.pre.v # NULL => heap[last.pre.v].state = "freed"
    /\ last.op = "move_ctor" => last.fr = <<>>

\* a move assignment between two arrays that both held a buffer
C11_Witness ==
  /\ last.op = "move_assign" /\ last.a # last.b
  /\ last.pre.v # NULL /\ last.preb.v # NULL
  /\ m_values[last.a] = last.preb.v

\* C13: c = c changes no field of c and no element of any buffer, and calls
\* neither new nor delete[].
C13_SelfCopyUnchanged ==
  [][(last'.op = "copy_assign" /\ last'.a = last'.b) =>
       /\ m_values' = m_values
       /\ m_size' = m_size
       /\ m_capacity' = m_capacity
       /\ heap' = heap
       /\ last'.al = <<>> /\ last'.fr = <<>>]_vars

\* c = c on an array that holds an element written by the program
C13_Witness ==
  /\ last.op = "copy_assign" /\ last.a = last.b
  /\ m_size[last.a] > 0
  /\ \E i \in 1..m_size[last.a] : Elems(heap, m_values[last.a])[i] # DefaultVal

\* C17: every buffer allocated is held by exactly one live array or has been
\* released, once: no live buffer without an owner, no two owners, no
\* delete[] of a buffer that is not live, no array holding a released buffer.
C17_BuffersOwnedOnce ==
  /\ ~last.bad
  /\ \A p \in Buf :
       /\ heap[p].state = "live" =>
            Cardinality({a \in Arr : alive[a] /\ m_values[a] = p}) = 1
       /\ heap[p].state # "live" =>
            {a \in Arr : alive[a] /\ m_values[a] = p} = {}

\* C19: create(n, false) with n > 0 leaves size = n and capacity = n from
\* every prior state.
C19_CreateNoPoolExact ==
  (last.op = "create" /\ ~last.pool /\ last.n > 0) =>
    /\ m_size[last.a] = last.n
    /\ m_capacity[last.a] = last.n

\* the storage cell element i of the slice s is
CellOf(s, i) == <<s.b, s.o + i>>

\* the array a seen as a slice of all its elements
Whole(a) == [b |-> m_values[a], o |-> 0, n |-> m_size[a]]

\* C12: copying into an array (copy construction or copy assignment from a
\* distinct array, construction or assignment from the plain buffer) leaves
\* it with a buffer that is no other array's and not the plain buffer: a
\* write to an element of one array changes no element of another array nor
\* of the plain buffer, and a write to the plain buffer changes no array.
C12_CopyIsolated ==
  [][ /\ \A a \in Arr, b \in Arr :
           (a # b /\ m_values'[a] # NULL) =>
              m_values'[a] # m_values'[b] /\ m_values'[a] # RAW
      /\ last'.op = "write" =>
           /\ raw' = raw
           /\ \A b \in Arr \ {last'.a} :
                Elems(heap', m_values'[b]) = Elems(heap, m_values[b])
      /\ last'.op = "write_raw" => heap' = heap
    ]_vars

\* an element of an array was written while the other array holds as many
\* elements, not all default, in a buffer of its own, and now differs
C12_Witness ==
  /\ last.op = "write"
  /\ \E b \in Arr \ {last.a} :
       /\ alive[b] /\ m_values[b] # NULL
       /\ m_size[b] = m_size[last.a]
       /\ Elems(heap, m_values[b]) # Fresh(m_capacity[b])
       /\ Elems(heap, m_values[b]) # Elems(heap, m_values[last.a])

\* the buffer the target of the last operation held is released, once, and
\* no slice with elements refers to live storage through it
HeldReleased ==
  last.pre.v # NULL =>
    /\ heap[last.pre.v].state = "freed"
    /\ last.fr = <<last.pre.v>>
    /\ \A k \in Sl : (sl[k].b = last.pre.v /\ sl[k].n > 0) => ~Valid(sl[k])

\* C14 (as the claim states it): create(n, false) with any n > 0,
\* create(n, true) with n > capacity, move assignment from another instance
\* and destruction release the buffer held, so no slice derived from it earlier
\* refers to live storage.
C14_ReleasesHeldAnySize ==
  /\ (last.op = "create" /\ ~last.pool /\ last.n > 0) => HeldReleased
  /\ (last.op = "create" /\ last.pool /\ last.n > last.pre.c) => HeldReleased
  /\ (last.op = "move_assign" /\ last.a # last.b) => HeldReleased
  /\ last.op = "dtor" => HeldReleased

\* C14 (amended): create(n, false) with n > 0 and n different from the
\* capacity, create(n, true) with n > capacity, move assignment from another
\* instance and destruction release the buffer held, so no slice derived from
\* it earlier refers to live storage.
C14_ReleasesHeld ==
  /\ (last.op = "create" /\ ~last.pool /\ last.n > 0 /\ last.n # last.pre.c)
        => HeldReleased
  /\ (last.op = "create" /\ last.pool /\ last.n > last.pre.c) => HeldReleased
  /\ (last.op = "move_assign" /\ last.a # last.b) => HeldReleased
  /\ last.op = "dtor" => HeldReleased

\* create(n, false) has just replaced a buffer a slice with elements views
C14_Witness ==
  /\ last.op = "create" /\ ~last.pool /\ last.n > 0 /\ last.n # last.pre.c
  /\ last.pre.v # NULL
  /\ \E k \in Sl : sl[k].b = last.pre.v /\ sl[k].n > 0

\* C15: for a slice or array s and lo <= hi <= s.size(), s(lo, hi) has size
\* hi - lo and its element i is the storage cell of element lo + i of s;
\* narrowing changes neither s nor any element; a write through a slice at
\* index i is read at the corresponding index of every array and slice that
\* covers the cell.
C15_Narrowing ==
  [][ /\ last'.op = "slice_range" =>
           /\ sl'[last'.k].n = last'.hi - last'.lo
           /\ \A i \in 0..(last'.hi - last'.lo - 1) :
                CellOf(sl'[last'.k], i) = CellOf(sl[last'.j], last'.lo + i)
           /\ sl'[last'.j] = sl[last'.j]
           /\ heap' = heap
      /\ last'.op \in {"array_range", "array_slice"} =>
           /\ sl'[last'.k].n = last'.hi - last'.lo
           /\ \A i \in 0..(last'.hi - last'.lo - 1) :
                CellOf(sl'[last'.k], i) = CellOf(Whole(last'.a), last'.lo + i)
           /\ m_values' = m_values /\ m_size' = m_size /\ m_capacity' = m_capacity
           /\ heap' = heap
      /\ last'.op = "slice_write" =>
           /\ \A a \in Arr, x \in 0..(MaxLen - 1) :
                (x < m_size[a] /\ CellOf(Whole(a), x) = CellOf(sl[last'.k], last'.lo))
                   => heap'[m_values'[a]].elems[x + 1] = last'.val
           /\ \A j \in Sl, x \in 0..(MaxLen - 1) :
                (x < sl[j].n /\ CellOf(sl[j], x) = CellOf(sl[last'.k], last'.lo))
                   => heap'[sl'[j].b].elems[sl'[j].o + x + 1] = last'.val
    ]_vars

\* a slice that starts inside its buffer was narrowed from its index lo > 0
\* on to a slice with elements
C15_Witness ==
  /\ last.op = "slice_range"
  /\ last.lo > 0 /\ last.hi > last.lo
  /\ sl[last.j].o > 0
  /\ Valid(sl[last.k])

\* C16: after fill(s, v) every index i < s.size() of s holds v; the writes go
\* to the indices 0, 1, ... in this order; the elements outside the range of
\* s, the buffers, the arrays and the slices (s included) are unchanged.
C16_FillWritesAll ==
  [][ last'.op = "fill" =>
        LET s == sl[last'.k]
        IN  /\ \A i \in 0..(s.n - 1) : heap'[s.b].elems[s.o + i + 1] = last'.val
            /\ last'.wr = [i \in 1..s.n |-> CellOf(s, i - 1)]
            /\ \A p \in Buf :
                 /\ heap'[p].state = heap[p].state
                 /\ Len(heap'[p].elems) = Len(heap[p].elems)
                 /\ \A x \in 1..Len(heap[p].elems) :
                      (p # s.b \/ x <= s.o \/ x > s.o + s.n)
                         => heap'[p].elems[x] = heap[p].elems[x]
            /\ sl' = sl /\ raw' = raw
            /\ m_values' = m_values /\ m_size' = m_size /\ m_capacity' = m_capacity
    ]_vars

\* a slice of two or more elements that starts inside its buffer was filled
\* with a value that is not the default
C16_Witness ==
  /\ last.op = "fill"
  /\ sl[last.k].n >= 2 /\ sl[last.k].o > 0
  /\ last.val # DefaultVal
  /\ Len(last.wr) = sl[last.k].n

\* C18: a copy assignment from an array of length n reads exactly the source
\* indices 0..n-1, none outside the source's storage, whatever size and
\* capacity the destination had.
C18_CopyReadsSourceLength ==
  last.op = "copy_assign" => last.rd = last.n /\ ~last.oob

\* C20: a create whose allocation fails was a reallocating call, leaves the
\* array null/0/0 with the buffer it held released once and nothing
\* allocated; in every state of a program with such failures each live
\* array satisfies the structural invariant, no delete[] was passed a buffer
\* that is not live, and each live buffer is held by exactly one live array.
C20_FailedCreateLeavesEmpty ==
  /\ last.op = "create_fail" =>
       /\ NeedsRealloc(last.n, last.pre.c, last.pool)
       /\ IsEmpty(Now(last.a))
       /\ last.fr = Released(last.pre.v)
       /\ last.al = <<>>
       /\ last.pre.v # NULL => heap[last.pre.v].state = "freed"
  /\ ~last.bad
  /\ \A a \in Arr :
       alive[a] =>
         /\ m_size[a] <= m_capacity[a]
         /\ m_capacity[a] > 0 => LiveOf(m_values[a], m_capacity[a])
         /\ m_capacity[a] = 0 => m_values[a] = NULL
  /\ \A p \in Buf :
       heap[p].state = "live" =>
         \E a \in Arr : /\ alive[a] /\ m_values[a] = p
                        /\ \A b \in Arr \ {a} : m_values[b] # p

\* the allocation of a create failed on an array that held a buffer
C20_Witness ==
  /\ last.op = "create_fail"
  /\ last.pre.v # NULL
  /\ heap[last.pre.v].state = "freed"

====
